---- MODULE Spec2Model ----
(***************************************************************************)
(* Model of src/script_llm.py: the award report of fetch_award_data        *)
(* (fetch, table rows, calculate_statistics, print_statistics with its     *)
(* question loop, create_visualizations) and the pure functions it uses,   *)
(* and of src/script.py: the award table of main.                          *)
(***************************************************************************)
EXTENDS Integers, Sequences, FiniteSets, TLC

(***************************************************************************)
(* Bounds of the model.                                                    *)
(***************************************************************************)
MaxFetched == 2
MaxQuestions == 2
MaxShort == 2
MaxPad == 6
MaxRanked == 6
MaxText == 3
MaxCents == 40

(***************************************************************************)
(* Program constants.                                                      *)
(***************************************************************************)
TopN == 5
ChartTopN == 10
HttpOk == 200
MantBits == 53

(***************************************************************************)
(* Small helpers.                                                          *)
(***************************************************************************)
RECURSIVE Pow2(_)
Pow2(k) == IF k = 0 THEN 1 ELSE 2 * Pow2(k - 1)

RECURSIVE SeqSum(_)
SeqSum(s) == IF s = <<>> THEN 0 ELSE Head(s) + SeqSum(Tail(s))

Zeros(k) == [i \in 1..k |-> 0]

RECURSIVE Gcd(_, _)
Gcd(a, b) == IF b = 0 THEN a ELSE Gcd(b, a % b)

Repeat(x, k) == [i \in 1..k |-> x]

RECURSIVE Pow10(_)
Pow10(k) == IF k = 0 THEN 1 ELSE 10 * Pow10(k - 1)

(***************************************************************************)
(* Python numbers.  An int is kept as an integer.  A float is an IEEE-754  *)
(* double: sig is its 53-bit significand, most significant bit first and   *)
(* leading bit 1, exp the exponent of the leading bit; 0.0 has sig = <<>>. *)
(***************************************************************************)
PyInt(n) == [tag |-> "int", v |-> n, sig |-> <<>>, exp |-> 0]
PyFloat(sig, exp) == [tag |-> "float", v |-> 0, sig |-> sig, exp |-> exp]

\* binary digits of a natural number, most significant first (<<>> for 0)
RECURSIVE BitsOf(_)
BitsOf(n) == IF n = 0 THEN <<>> ELSE Append(BitsOf(n \div 2), n % 2)

\* bits + 1 on a most-significant-first sequence of fixed length; the carry out
\* of the top bit is returned in front
RECURSIVE IncBits(_)
IncBits(b) ==
    IF b = <<>> THEN <<1>>
    ELSE IF b[Len(b)] = 0 THEN SubSeq(b, 1, Len(b) - 1) \o <<1>>
    ELSE LET hi == IncBits(SubSeq(b, 1, Len(b) - 1)) IN hi \o <<0>>

\* round-half-to-even of a significand: kept are the MantBits leading bits,
\* up says the dropped part is above one half, tie that it is exactly one half
RoundSig(kept, exp, up, tie) ==
    IF up \/ (tie /\ kept[MantBits] = 1)
    THEN LET inc == IncBits(kept) IN
         IF Len(inc) > MantBits
         THEN PyFloat(SubSeq(inc, 1, MantBits), exp + 1)
         ELSE PyFloat(inc, exp)
    ELSE PyFloat(kept, exp)

\* float(n) for an int n >= 0 below 2^53: exact
FloatOfInt(n) ==
    IF n = 0 THEN PyFloat(<<>>, 0)
    ELSE LET b == BitsOf(n) IN PyFloat(b \o Zeros(MantBits - Len(b)), Len(b) - 1)

\* k quotient bits of r/d by long division (0 <= r < d)
RECURSIVE DivBits(_, _, _)
DivBits(r, d, k) ==
    IF k = 0 THEN <<>>
    ELSE LET b == IF 2 * r >= d THEN 1 ELSE 0 IN <<b>> \o DivBits(2 * r - b * d, d, k - 1)

\* the remainder left after those k bits
RECURSIVE DivRem(_, _, _)
DivRem(r, d, k) ==
    IF k = 0 THEN r
    ELSE LET b == IF 2 * r >= d THEN 1 ELSE 0 IN DivRem(2 * r - b * d, d, k - 1)

\* the exponent e of a/b: 2^e <= a/b < 2^(e+1), for a, b > 0
RECURSIVE Log2Up(_, _)
Log2Up(a, b) == IF a < 2 * b THEN 0 ELSE 1 + Log2Up(a, 2 * b)
RECURSIVE Log2Down(_, _)
Log2Down(a, b) == IF a >= b THEN 0 ELSE 1 + Log2Down(2 * a, b)

\* a / b in Python for ints a >= 0, b > 0: the double nearest to the quotient
TrueDiv(a, b) ==
    IF a = 0 THEN PyFloat(<<>>, 0)
    ELSE LET up == Log2Up(a, b)
             dn == Log2Down(a, b)
             e == IF a >= b THEN up ELSE 0 - dn
             n == IF a >= b THEN a ELSE a * Pow2(dn)
             d == IF a >= b THEN b * Pow2(up) ELSE b
             r == DivRem(n - d, d, MantBits - 1)
         IN RoundSig(<<1>> \o DivBits(n - d, d, MantBits - 1), e, 2 * r > d, 2 * r = d)

\* the value of a short bit sequence
RECURSIVE BitsVal(_)
BitsVal(b) == IF b = <<>> THEN 0 ELSE 2 * BitsVal(SubSeq(b, 1, Len(b) - 1)) + b[Len(b)]

\* Long numbers are cut into limbs of LimbBits bits, most significant limb
\* first, so that the arithmetic on them stays within the integers at hand.
LimbBits == 14
LimbBase == Pow2(LimbBits)

\* the limbs of a bit sequence whose length is a multiple of LimbBits
ToLimbs(bits) ==
    [i \in 1..(Len(bits) \div LimbBits) |->
        BitsVal(SubSeq(bits, LimbBits * (i - 1) + 1, LimbBits * i))]

\* the bits of a sequence of limbs
FromLimbs(limbs) ==
    [j \in 1..(LimbBits * Len(limbs)) |->
        (limbs[((j - 1) \div LimbBits) + 1]
            \div Pow2(LimbBits - 1 - ((j - 1) % LimbBits))) % 2]

\* limbs * n + carry for a small n, with the carry out as one more limb in
\* front
RECURSIVE MulLimbs(_, _, _)
MulLimbs(limbs, n, carry) ==
    IF limbs = <<>> THEN <<carry>>
    ELSE LET t == limbs[Len(limbs)] * n + carry IN
         Append(MulLimbs(SubSeq(limbs, 1, Len(limbs) - 1), n, t \div LimbBase),
                t % LimbBase)

\* the quotient limbs of (r, limbs) divided by a small n, r < n
RECURSIVE DivLimbs(_, _, _)
DivLimbs(limbs, n, r) ==
    IF limbs = <<>> THEN <<>>
    ELSE LET t == r * LimbBase + Head(limbs) IN
         <<t \div n>> \o DivLimbs(Tail(limbs), n, t % n)

\* the remainder of that division
RECURSIVE RemLimbs(_, _, _)
RemLimbs(limbs, n, r) ==
    IF limbs = <<>> THEN r
    ELSE RemLimbs(Tail(limbs), n, (r * LimbBase + Head(limbs)) % n)

\* n as a product of factors small enough for DivLimbs
RECURSIVE Factors(_)
Factors(n) ==
    IF n > 1000 /\ n % 1000 = 0 THEN <<1000>> \o Factors(n \div 1000) ELSE <<n>>

\* limbs divided by each factor in turn: the floor of the quotient by their
\* product, and whether a remainder was dropped
RECURSIVE DivAll(_, _)
DivAll(limbs, factors) ==
    IF factors = <<>> THEN [q |-> limbs, inexact |-> FALSE]
    ELSE LET rest == DivAll(DivLimbs(limbs, Head(factors), 0), Tail(factors)) IN
         [q |-> rest.q,
          inexact |-> rest.inexact \/ RemLimbs(limbs, Head(factors), 0) # 0]

\* quotient bits computed beyond the significand: more than the bits of the
\* largest divisor, and MantBits + GuardBits is a multiple of LimbBits
GuardBits == 45

\* x / n in Python for a float x >= 0 and an int 0 < n <= Billion: the double
\* nearest to the quotient
FloatDivInt(x, n) ==
    IF x.sig = <<>> THEN x
    ELSE LET d == DivAll(ToLimbs(x.sig \o Zeros(GuardBits)), Factors(n))
             q == FromLimbs(d.q)
             z == (CHOOSE i \in 1..Len(q) : q[i] = 1 /\ \A j \in 1..(i - 1) : q[j] = 0) - 1
             rest == SubSeq(q, z + MantBits + 1, Len(q))
             sticky == d.inexact \/ \E i \in 2..Len(rest) : rest[i] = 1
         IN RoundSig(SubSeq(q, z + 1, z + MantBits), x.exp - z,
                     rest[1] = 1 /\ sticky, rest[1] = 1 /\ ~sticky)

\* x / n in Python for a number x >= 0 below 2^53: an int is converted to
\* float first
PyDiv(x, n) == FloatDivInt(IF x.tag = "int" THEN FloatOfInt(x.v) ELSE x, n)

(***************************************************************************)
(* JSON values of a raw record and dict.get.  A raw record is a function   *)
(* from the keys it holds to JSON values; a key can be absent.  A str is a *)
(* sequence of one-character strings.                                      *)
(***************************************************************************)
StrNA == <<"N", "/", "A">>
StrUnknown == <<"U", "n", "k", "n", "o", "w", "n">>
StrExit == <<"e", "x", "i", "t">>
Ellipsis == <<".", ".", ".">>

JNum(n) == [tag |-> "num", n |-> n, s |-> <<>>]
JStr(s) == [tag |-> "str", n |-> 0, s |-> s]
JNull == [tag |-> "null", n |-> 0, s |-> <<>>]

\* stands for a key the record does not hold
Absent == [tag |-> "absent", n |-> 0, s |-> <<>>]

KAmount == "Award Amount"
KRecipient == "Recipient Name"
KType == "Contract Award Type"
KStart == "Period of Performance Start Date"
KEnd == "Period of Performance Current End Date"

\* item.get(key, default)
Get(item, key, default) == IF key \in DOMAIN item THEN item[key] ELSE default

\* bool(v) of a JSON value
Truthy(v) ==
    CASE v.tag = "null" -> FALSE
      [] v.tag = "num" -> v.n # 0
      [] v.tag = "str" -> v.s # <<>>

\* item.get('Award Amount', 0) or 0, for an amount that is a number, null or
\* the empty text
AmountOf(item) ==
    LET v == Get(item, KAmount, JNum(0)) IN IF Truthy(v) THEN v.n ELSE 0

\* item.get('Award Amount', 0) or 0 is a text: the amount is a text that is not
\* empty, which "or 0" leaves as it is
AmountIsText(item) ==
    LET v == Get(item, KAmount, JNum(0)) IN v.tag = "str" /\ Truthy(v)

\* award_amounts = [x.get('Award Amount', 0) or 0 for x in data]
AwardAmounts(d) == [i \in 1..Len(d) |-> AmountOf(d[i])]

(***************************************************************************)
(* statistics.mean, median, stdev and the builtins max, min, sorted.       *)
(***************************************************************************)
RECURSIVE SeqMax(_)
SeqMax(s) == IF Len(s) = 1 THEN s[1]
             ELSE LET m == SeqMax(Tail(s)) IN IF m > s[1] THEN m ELSE s[1]

RECURSIVE SeqMin(_)
SeqMin(s) == IF Len(s) = 1 THEN s[1]
             ELSE LET m == SeqMin(Tail(s)) IN IF m < s[1] THEN m ELSE s[1]

\* min() taken over every amount, zeros included
PositiveOrZero(s) == SelectSeq(s, LAMBDA x : x >= 0)

\* [x for x in s if x > 0]
Positive(s) == SelectSeq(s, LAMBDA x : x > 0)

\* insert x into an ascending sequence
RECURSIVE InsertAsc(_, _)
InsertAsc(s, x) ==
    IF s = <<>> THEN <<x>>
    ELSE IF x < Head(s) THEN <<x>> \o s
    ELSE <<Head(s)>> \o InsertAsc(Tail(s), x)

\* sorted(s)
RECURSIVE SortAsc(_)
SortAsc(s) == IF s = <<>> THEN <<>>
              ELSE InsertAsc(SortAsc(SubSeq(s, 1, Len(s) - 1)), s[Len(s)])

\* a mean over the positive amounts only
MeanOfPositive(a) ==
    LET p == SelectSeq(a, LAMBDA x : x > 0)
        t == SeqSum(p)
        n == Len(p)
    IN IF t % n = 0 THEN PyInt(t \div n) ELSE TrueDiv(t, n)

\* statistics.mean of ints: the exact quotient, an int when it is whole and
\* otherwise the nearest double
Mean(a) ==
    LET t == SeqSum(a)
        n == Len(a)
    IN IF t % n = 0 THEN PyInt(t \div n) ELSE TrueDiv(t, n)

\* statistics.median: the middle element, or (a + b) / 2 of the two middle ones
\* a median that leaves the zeros out
MedianOfPositive(a) ==
    LET s == SortAsc(Positive(a))
        n == Len(s)
        i == n \div 2
    IN IF n % 2 = 1 THEN PyInt(s[i + 1]) ELSE TrueDiv(s[i] + s[i + 1], 2)

Median(a) ==
    LET s == SortAsc(a)
        n == Len(a)
        i == n \div 2
    IN IF n % 2 = 1 THEN PyInt(s[i + 1]) ELSE TrueDiv(s[i] + s[i + 1], 2)

\* the double nearest to the square root of num / den; the root is kept
\* symbolic
PyRoot(num, den) == [tag |-> "sqrt", v |-> num, sig |-> <<>>, exp |-> den]

\* statistics.stdev for len(a) > 1: the root of the exact sample variance
\* ss / (n - 1), ss = sum((x - mean)^2) = (n * sum(x^2) - sum(x)^2) / n
Stdev(a) ==
    LET n == Len(a)
        t == SeqSum(a)
        sq == SeqSum([i \in 1..n |-> a[i] * a[i]])
        num == n * sq - t * t
        den == n * (n - 1)
        g == Gcd(num, den)
    IN PyRoot(num \div g, den \div g)

(***************************************************************************)
(* Counter and the recipient totals: Python dicts, kept as sequences of    *)
(* <<key, value>> in insertion order.                                      *)
(***************************************************************************)
RECURSIVE DictIndex(_, _)
DictIndex(dict, key) ==
    IF dict = <<>> THEN 0
    ELSE IF dict[Len(dict)][1] = key THEN Len(dict)
    ELSE DictIndex(SubSeq(dict, 1, Len(dict) - 1), key)

\* dict[key] = dict.get(key, 0) + amount
DictAdd(dict, key, amount) ==
    LET i == DictIndex(dict, key) IN
    IF i = 0 THEN Append(dict, <<key, amount>>)
    ELSE [dict EXCEPT ![i] = <<key, dict[i][2] + amount>>]

\* Counter(item.get('Contract Award Type', 'Unknown') for item in data)
RECURSIVE ContractTypes(_)
ContractTypes(d) ==
    IF d = <<>> THEN <<>>
    ELSE DictAdd(ContractTypes(SubSeq(d, 1, Len(d) - 1)),
                 Get(d[Len(d)], KType, JStr(StrUnknown)), 1)

\* the loop filling recipient_totals
RECURSIVE RecipientTotals(_)
RecipientTotals(d) ==
    IF d = <<>> THEN <<>>
    ELSE DictAdd(RecipientTotals(SubSeq(d, 1, Len(d) - 1)),
                 Get(d[Len(d)], KRecipient, JStr(StrUnknown)), AmountOf(d[Len(d)]))

\* an insertion in front of the items of equal value: an unstable sort
RECURSIVE InsertDescFront(_, _)
InsertDescFront(s, x) ==
    IF s = <<>> THEN <<x>>
    ELSE IF x[2] >= Head(s)[2] THEN <<x>> \o s
    ELSE <<Head(s)>> \o InsertDescFront(Tail(s), x)

\* insert an item into a sequence sorted by descending value, behind every
\* item whose value is at least as large: the sort is stable
RECURSIVE InsertDesc(_, _)
InsertDesc(s, x) ==
    IF s = <<>> THEN <<x>>
    ELSE IF x[2] > Head(s)[2] THEN <<x>> \o s
    ELSE <<Head(s)>> \o InsertDesc(Tail(s), x)

\* sorted(items, key=lambda x: x[1], reverse=True)
RECURSIVE SortDesc(_)
SortDesc(s) == IF s = <<>> THEN <<>>
               ELSE InsertDesc(SortDesc(SubSeq(s, 1, Len(s) - 1)), s[Len(s)])

\* s[:k]
Take(s, k) == SubSeq(s, 1, IF Len(s) < k THEN Len(s) ELSE k)

\* dict(sorted(recipient_totals.items(), key=lambda x: x[1], reverse=True)[:k])
TopRecipients(d, k) == Take(SortDesc(RecipientTotals(d)), k)

(***************************************************************************)
(* calculate_statistics.  The result is None for no data, the exception    *)
(* raised, or the stats dict.                                              *)
(***************************************************************************)
ReturnNone == [kind |-> "none"]
Raise(e) == [kind |-> "raise", error |-> e]

\* a std_dev that needs three amounts
StdDevOfThree(a) == IF Len(a) > 2 THEN Stdev(a) ELSE PyInt(0)

\* statistics.stdev(award_amounts) if len(award_amounts) > 1 else 0
StdDev(a) == IF Len(a) > 1 THEN Stdev(a) ELSE PyInt(0)

\* the body of calculate_statistics for data that is not empty: sum() over a
\* text amount raises TypeError, min() of no positive amount raises ValueError
StatsDict(d) ==
    LET a == AwardAmounts(d) IN
    IF \E i \in 1..Len(d) : AmountIsText(d[i]) THEN Raise("TypeError")
    ELSE IF Positive(a) = <<>> THEN Raise("ValueError")
    ELSE [kind |-> "stats",
          total_awards |-> Len(d),
          total_value |-> SeqSum(a),
          average_award |-> Mean(a),
          median_award |-> Median(a),
          std_dev |-> StdDev(a),
          max_award |-> SeqMax(a),
          min_award |-> SeqMin(Positive(a)),
          contract_types |-> ContractTypes(d),
          top_recipients |-> TopRecipients(d, TopN)]

\* calculate_statistics without its test for no data: mean() of no data raises
calculate_statistics_unguarded(d) ==
    IF d = <<>> THEN Raise("StatisticsError") ELSE StatsDict(d)

calculate_statistics(d) == IF d = <<>> THEN ReturnNone ELSE StatsDict(d)

(***************************************************************************)
(* Text functions.                                                         *)
(***************************************************************************)
UpperChars == <<"A", "B", "C", "D", "E", "F", "G", "H", "I", "J", "K", "L", "M",
                "N", "O", "P", "Q", "R", "S", "T", "U", "V", "W", "X", "Y", "Z">>
LowerChars == <<"a", "b", "c", "d", "e", "f", "g", "h", "i", "j", "k", "l", "m",
                "n", "o", "p", "q", "r", "s", "t", "u", "v", "w", "x", "y", "z">>
DigitChars == <<"0", "1", "2", "3", "4", "5", "6", "7", "8", "9">>

\* the index of c in a sequence of distinct characters, 0 when it is not there
IndexOf(chars, c) ==
    IF \E i \in 1..Len(chars) : chars[i] = c
    THEN CHOOSE i \in 1..Len(chars) : chars[i] = c
    ELSE 0

\* str.lower() on ASCII text
Lower(text) ==
    [i \in 1..Len(text) |->
        LET k == IndexOf(UpperChars, text[i]) IN
        IF k = 0 THEN text[i] ELSE LowerChars[k]]


\* a truncate_text that also cuts a text of exactly max_length characters
truncate_text_inclusive(text, max_length) ==
    IF ~Truthy(text) \/ text.s = StrNA THEN StrNA
    ELSE IF Len(text.s) >= max_length THEN SubSeq(text.s, 1, max_length) \o Ellipsis
    ELSE text.s

\* truncate_text(text, max_length) on a JSON value
truncate_text(text, max_length) ==
    IF ~Truthy(text) \/ text.s = StrNA THEN StrNA
    ELSE IF Len(text.s) > max_length THEN SubSeq(text.s, 1, max_length) \o Ellipsis
    ELSE text.s

(***************************************************************************)
(* format_currency.  PyNone is Python's None, PyText a str.  The result     *)
(* names the branch taken and the number rendered in it; for a str the     *)
(* comparison amount >= 1_000_000_000 raises TypeError.                    *)
(***************************************************************************)
PyNone == [tag |-> "none", v |-> 0, sig |-> <<>>, exp |-> 0]
PyText(s) == [tag |-> "str", v |-> 0, sig |-> s, exp |-> 0]

\* the Python value of a JSON number, text or null
PyOf(v) ==
    CASE v.tag = "null" -> PyNone
      [] v.tag = "str" -> PyText(v.s)
      [] OTHER -> PyInt(v.n)

\* a >= b for two bit sequences of one length, most significant bit first
RECURSIVE BitsGe(_, _)
BitsGe(a, b) ==
    IF a = <<>> THEN TRUE
    ELSE IF Head(a) # Head(b) THEN Head(a) > Head(b)
    ELSE BitsGe(Tail(a), Tail(b))

\* x >= n in Python for a number x >= 0 and an int n > 0
NumGe(x, n) ==
    IF x.tag = "int" THEN x.v >= n
    ELSE LET y == FloatOfInt(n) IN
         x.sig # <<>> /\ (x.exp > y.exp \/ (x.exp = y.exp /\ BitsGe(x.sig, y.sig)))

\* x == 0 in Python
NumIsZero(x) == IF x.tag = "int" THEN x.v = 0 ELSE x.sig = <<>>

Billion == 1000000000
Million == 1000000
Thousand == 1000

\* the decimal digits of a natural number
RECURSIVE DigitsOf(_)
DigitsOf(n) ==
    IF n < 10 THEN <<DigitChars[n + 1]>>
    ELSE Append(DigitsOf(n \div 10), DigitChars[(n % 10) + 1])

\* x * 10^d rounded half to even, for a number x >= 0 below 2^31 / 10^d: the
\* digits the format 'f' prints for x with d decimals
Scaled(x, d) ==
    IF x.tag = "int" THEN x.v * Pow10(d)
    ELSE IF x.sig = <<>> THEN 0
    ELSE LET shift == (MantBits - 1) - x.exp
             q == Zeros(shift - MantBits) \o x.sig
             whole == BitsVal(SubSeq(q, 1, Len(q) - shift))
             frac == SubSeq(q, Len(q) - shift + 1, Len(q))
             pad == (LimbBits - (Len(frac) % LimbBits)) % LimbBits
             m == MulLimbs(ToLimbs(frac \o Zeros(pad)), Pow10(d), 0)
             n == whole * Pow10(d) + m[1]
             half == Len(m) > 1 /\ m[2] >= LimbBase \div 2
             sticky == Len(m) > 1 /\ (\/ m[2] % (LimbBase \div 2) # 0
                                       \/ \E i \in 3..Len(m) : m[i] # 0)
         IN IF half /\ (sticky \/ n % 2 = 1) THEN n + 1 ELSE n

\* the digits of a whole number with "," between groups of three
RECURSIVE Grouped(_)
Grouped(w) ==
    IF Len(w) <= 3 THEN w
    ELSE Grouped(SubSeq(w, 1, Len(w) - 3)) \o <<",">> \o SubSeq(w, Len(w) - 2, Len(w))

\* f"{x:.1f}" with d = 1 and no grouping, f"{x:,.2f}" with d = 2 and grouping
Fixed(x, d, grouping) ==
    LET ds == DigitsOf(Scaled(x, d))
        padded == Repeat("0", d + 1 - Len(ds)) \o ds
        whole == SubSeq(padded, 1, Len(padded) - d)
    IN (IF grouping THEN Grouped(whole) ELSE whole)
           \o <<".">> \o SubSeq(padded, Len(padded) - d + 1, Len(padded))

\* the branch format_currency takes, with thresholds that are exclusive
CurrencyFormExclusive(amount) ==
    IF amount.tag = "str" THEN "TypeError"
    ELSE IF amount.tag = "none" \/ NumIsZero(amount) THEN "$0"
    ELSE IF NumGe(amount, Billion + 1) THEN "B"
    ELSE IF NumGe(amount, Million + 1) THEN "M"
    ELSE IF NumGe(amount, Thousand + 1) THEN "K"
    ELSE "plain"

\* the branch format_currency takes for None, a text, or a number >= 0: the
\* first comparison of a text with a number raises
CurrencyForm(amount) ==
    IF amount.tag = "str" THEN "TypeError"
    ELSE IF amount.tag = "none" \/ NumIsZero(amount) THEN "$0"
    ELSE IF NumGe(amount, Billion) THEN "B"
    ELSE IF NumGe(amount, Million) THEN "M"
    ELSE IF NumGe(amount, Thousand) THEN "K"
    ELSE "plain"

\* the divisor of a branch with a suffix
UnitOf(form) ==
    CASE form = "B" -> Billion
      [] form = "M" -> Million
      [] form = "K" -> Thousand

\* the text the branch returns
CurrencyText(amount, form) ==
    CASE form = "TypeError" -> <<>>
      [] form = "$0" -> <<"$", "0">>
      [] form = "plain" -> <<"$">> \o Fixed(amount, 2, TRUE)
      [] OTHER -> <<"$">> \o Fixed(PyDiv(amount, UnitOf(form)), 1, FALSE) \o <<form>>

format_currency(amount) ==
    LET form == CurrencyForm(amount) IN
    [form |-> form,
     of |-> IF form = "$0" THEN PyInt(0) ELSE amount,
     text |-> CurrencyText(amount, form)]

(***************************************************************************)
(* datetime.strptime(text, "%Y-%m-%d").strftime("%m/%d/%Y")                *)
(***************************************************************************)
IsDigits(t) == \A i \in 1..Len(t) : IndexOf(DigitChars, t[i]) # 0

RECURSIVE DigitsVal(_)
DigitsVal(t) ==
    IF t = <<>> THEN 0
    ELSE 10 * DigitsVal(SubSeq(t, 1, Len(t) - 1)) + (IndexOf(DigitChars, t[Len(t)]) - 1)

\* the positions of "-" in the text
Dashes(t) == {i \in 1..Len(t) : t[i] = "-"}

IsLeap(y) == (y % 4 = 0 /\ y % 100 # 0) \/ y % 400 = 0

DaysIn(m, y) ==
    IF m = 2 THEN (IF IsLeap(y) THEN 29 ELSE 28)
    ELSE IF m \in {4, 6, 9, 11} THEN 30 ELSE 31

\* the year, month and day texts of "Y-M-D"
DateParts(t) ==
    LET d1 == CHOOSE i \in Dashes(t) : \A j \in Dashes(t) : i <= j
        d2 == CHOOSE i \in Dashes(t) : \A j \in Dashes(t) : i >= j
    IN <<SubSeq(t, 1, d1 - 1), SubSeq(t, d1 + 1, d2 - 1), SubSeq(t, d2 + 1, Len(t))>>

\* the digits of a day text: %d also takes a space in front of one digit
DayDigits(t) == IF Len(t) = 2 /\ t[1] = " " THEN <<t[2]>> ELSE t

\* strptime accepts: four year digits, one or two month and day digits, a
\* month of the year and a day of that month
ParsesAsDate(t) ==
    /\ Cardinality(Dashes(t)) = 2
    /\ LET p == DateParts(t) IN
       /\ Len(p[1]) = 4 /\ Len(p[2]) \in {1, 2} /\ Len(p[3]) \in {1, 2}
       /\ IsDigits(p[1]) /\ IsDigits(p[2]) /\ IsDigits(DayDigits(p[3]))
       /\ DigitsVal(p[1]) >= 1
       /\ DigitsVal(p[2]) \in 1..12
       /\ DigitsVal(DayDigits(p[3])) \in 1..DaysIn(DigitsVal(p[2]), DigitsVal(p[1]))

\* two digits of a number below 100
Pad2(n) == <<DigitChars[(n \div 10) + 1], DigitChars[(n % 10) + 1]>>

\* strftime("%m/%d/%Y") of a parsed date, for a year from 1000
FormatDate(t) ==
    LET p == DateParts(t) IN
    Pad2(DigitsVal(p[2])) \o <<"/">> \o Pad2(DigitsVal(DayDigits(p[3])))
        \o <<"/">> \o p[1]

\* a date cell that shows "N/A" for a text strptime rejects
DateCellLenient(item, key) ==
    IF Truthy(Get(item, key, JNull))
    THEN LET t == Get(item, key, JStr(<<>>)).s IN
         IF ParsesAsDate(t) THEN [ok |-> TRUE, text |-> FormatDate(t)]
         ELSE [ok |-> TRUE, text |-> StrNA]
    ELSE [ok |-> TRUE, text |-> StrNA]

\* one date cell of a row: the text, or the ValueError of strptime
DateCell(item, key) ==
    IF Truthy(Get(item, key, JNull))
    THEN LET t == Get(item, key, JStr(<<>>)).s IN
         IF ParsesAsDate(t) THEN [ok |-> TRUE, text |-> FormatDate(t)]
         ELSE [ok |-> FALSE, text |-> t]
    ELSE [ok |-> TRUE, text |-> StrNA]

(***************************************************************************)
(* The narrative of print_statistics and the prompts built from it.        *)
(***************************************************************************)
\* max(d, key=d.get): the first key, in insertion order, of the largest value
\* a choice of the type with the fewest awards
LeastCommon(dict) ==
    LET i == CHOOSE i \in 1..Len(dict) :
                 /\ \A j \in 1..Len(dict) : dict[j][2] >= dict[i][2]
                 /\ \A j \in 1..(i - 1) : dict[j][2] > dict[i][2]
    IN dict[i][1]

MostCommon(dict) ==
    LET i == CHOOSE i \in 1..Len(dict) :
                 /\ \A j \in 1..Len(dict) : dict[j][2] <= dict[i][2]
                 /\ \A j \in 1..(i - 1) : dict[j][2] < dict[i][2]
    IN dict[i][1]

\* statistics_summary: the values the sentence templates are filled with
Summary(st) ==
    [total_awards |-> st.total_awards,
     total_value |-> format_currency(PyInt(st.total_value)),
     average_award |-> format_currency(st.average_award),
     median_award |-> format_currency(st.median_award),
     max_award |-> format_currency(PyInt(st.max_award)),
     min_award |-> format_currency(PyInt(st.min_award)),
     common_type |-> MostCommon(st.contract_types),
     top_recipient |-> st.top_recipients[1][1],
     top_total |-> format_currency(PyInt(st.top_recipients[1][2]))]

NoSummary == [total_awards |-> 0]

\* the three prompt templates of print_statistics
SentimentPrompt(summary) == [kind |-> "sentiment", summary |-> summary, question |-> <<>>]
SummaryPrompt(summary) == [kind |-> "summarize", summary |-> summary, question |-> <<>>]
\* a question prompt built from the lowered question
QuestionPromptLowered(summary, question) ==
    [kind |-> "question", summary |-> summary, question |-> Lower(question)]

QuestionPrompt(summary, question) ==
    [kind |-> "question", summary |-> summary, question |-> question]

NoPrompt == [kind |-> "none", summary |-> NoSummary, question |-> <<>>]

(***************************************************************************)
(* analyze_with_llm.  outcome is what generate_content does with the       *)
(* prompt: a response text, or an exception.                               *)
(***************************************************************************)
StrGenError == <<"A", "n", " ", "e", "r", "r", "o", "r", " ", "o", "c", "c", "u", "r", "r", "e", "d", " ", "w", "h", "i", "l", "e", " ", "g", "e", "n", "e", "r", "a", "t", "i", "n", "g", " ", "t", "h", "e", " ", "r", "e", "s", "p", "o", "n", "s", "e", ".">>

ServiceReplies == {<<"O", "K">>}
ServiceErrors == {<<"q", "u", "o", "t", "a">>}
ServiceOutcomes == {[ok |-> TRUE, text |-> t] : t \in ServiceReplies}
                       \cup {[ok |-> FALSE, text |-> t] : t \in ServiceErrors}

\* ret is the value returned, printed what the call prints
analyze_with_llm(text, outcome) ==
    IF outcome.ok THEN [ret |-> outcome.text, printed |-> <<>>]
    ELSE [ret |-> StrGenError,
          printed |-> <<<<"Error generating response", outcome.text>>>>]

\* a comparison with 'exit' that minds the case
IsExitExact(question) == question = StrExit

\* user_question.lower() == 'exit'
IsExit(question) == Lower(question) = StrExit

\* what input() can return
UserInputs == {StrExit, <<"E", "X", "I", "T">>, <<"E", "x", "i", "t">>,
               <<"e", "x", "i", "t", " ">>, <<"T", "o", "p", "?">>}

(***************************************************************************)
(* The records the query service returns.                                  *)
(***************************************************************************)
DateOk == <<"2", "0", "2", "4", "-", "0", "1", "-", "3", "1">>
DateBad == <<"0", "1", "/", "3", "1", "/", "2", "0", "2", "4">>

MkRecord(amount, recipient, type, start) ==
    [k \in {KAmount, KRecipient, KType, KStart} |->
        CASE k = KAmount -> amount
          [] k = KRecipient -> JStr(recipient)
          [] k = KType -> JStr(type)
          [] k = KStart -> JStr(start)]

ApiRecords ==
    {MkRecord(p[1], p[2], <<"X">>, s) :
        p \in {<<JNull, <<"B">>>>, <<JNum(0), <<"A">>>>,
                <<JNum(100), <<"A">>>>, <<JNum(100), <<"B">>>>},
        s \in {DateOk, DateBad}}

\* all sequences of at most n elements of S
RECURSIVE SeqsUpTo(_, _)
SeqsUpTo(S, n) ==
    IF n = 0 THEN {<<>>}
    ELSE LET shorter == SeqsUpTo(S, n - 1) IN
         shorter \cup {Append(q, x) : q \in {t \in shorter : Len(t) = n - 1}, x \in S}

\* what one request can end in
FetchOutcomes ==
    {[kind |-> "RequestException", code |-> 0, results |-> <<>>],
     [kind |-> "JSONDecodeError", code |-> HttpOk, results |-> <<>>]}
    \cup {[kind |-> "response", code |-> c, results |-> <<>>] : c \in {404, 500}}
    \cup {[kind |-> "response", code |-> HttpOk, results |-> d] :
             d \in SeqsUpTo(ApiRecords, MaxFetched)}

(***************************************************************************)
(* The state of one run of fetch_award_data.                               *)
(***************************************************************************)
VARIABLES
    pc,                 \* where the run is
    data,               \* the results of the response
    table,              \* the rows of the awards table
    console,            \* everything printed, in order
    stats,              \* what calculate_statistics returned
    statistics_summary, \* the narrative of print_statistics
    user_question,      \* the last input read by the loop
    question_prompt,    \* the last prompt composed by the loop
    answer,             \* the last value analyze_with_llm returned to the loop
    llm_log,            \* every prompt sent to the service with its outcome
    inputs,             \* every input the loop has read
    chart,              \* award_analysis.png as written by this run
    fetches,            \* requests sent to the query service
    calc_calls,         \* calls of calculate_statistics
    args,               \* the arguments of a function called on its own
    retval              \* what that function returned

vars == <<pc, data, table, console, stats, statistics_summary, user_question,
          question_prompt, answer, llm_log, inputs, chart, fetches, calc_calls,
          args, retval>>

Unset == [kind |-> "unset"]
NoChart == [saved |-> FALSE]

BlankRun ==
    /\ table = <<>>
    /\ console = <<>>
    /\ stats = Unset
    /\ statistics_summary = NoSummary
    /\ user_question = <<>>
    /\ question_prompt = NoPrompt
    /\ answer = <<>>
    /\ llm_log = <<>>
    /\ inputs = <<>>
    /\ chart = NoChart
    /\ fetches = 0
    /\ calc_calls = 0

Blank == BlankRun /\ args = Unset /\ retval = Unset

Init == pc = "start" /\ data = <<>> /\ Blank

\* the except clauses of fetch_award_data: the message is printed and the
\* function returns
Fail(message, detail) ==
    /\ console' = Append(console, <<message, detail>>)
    /\ pc' = "done"

\* one row of the awards table, with the two date cells as DateCell gives them
TableRow(item) ==
    [award_id |-> Get(item, "Award ID", JStr(StrNA)),
     recipient |-> truncate_text(Get(item, KRecipient, JStr(StrNA)), 30),
     amount |-> format_currency(PyOf(Get(item, KAmount, JNull))),
     description |-> truncate_text(Get(item, "Description", JStr(StrNA)), 50),
     type |-> truncate_text(Get(item, KType, JStr(StrNA)), 20),
     start_date |-> DateCell(item, KStart),
     end_date |-> DateCell(item, KEnd)]

\* the exception one pass of the row loop raises, "" when it raises none: the
\* dates are parsed before the cells of add_row are computed
RowError(item) ==
    IF ~DateCell(item, KStart).ok \/ ~DateCell(item, KEnd).ok THEN "ValueError"
    ELSE IF CurrencyForm(PyOf(Get(item, KAmount, JNull))) = "TypeError"
    THEN "TypeError"
    ELSE ""

\* the first item whose row raises, 0 when there is none
FirstBadRow(d) ==
    LET bad == {i \in 1..Len(d) : RowError(d[i]) # ""}
    IN IF bad = {} THEN 0 ELSE CHOOSE i \in bad : \A j \in bad : i <= j

\* response.json() raises the JSONDecodeError of json or, with requests 2.27
\* and later, one that is a RequestException as well and is caught as such
JsonErrorMessages == {"Failed to parse JSON response.", "Network error"}

\* requests.post and the branches on the response, for one outcome
FetchOutcome(out) ==
    /\ pc = "start"
    /\ fetches' = fetches + 1
    /\    CASE out.kind = "RequestException" ->
                  /\ Fail("Network error", <<>>)
                  /\ data' = data
            [] out.kind = "JSONDecodeError" ->
                  /\ \E message \in JsonErrorMessages : Fail(message, <<>>)
                  /\ data' = data
            [] out.kind = "response" /\ out.code # HttpOk ->
                  /\ Fail("Error: Received status code", out.code)
                  /\ data' = data
            [] out.kind = "response" /\ out.code = HttpOk /\ out.results = <<>> ->
                  /\ Fail("No results found", <<>>)
                  /\ data' = out.results
            [] OTHER ->
                  /\ data' = out.results
                  /\ pc' = "rows"
                  /\ console' = console
    /\ UNCHANGED <<table, stats, statistics_summary, user_question, question_prompt,
                   answer, llm_log, inputs, chart, calc_calls,
                   args, retval>>

Fetch == \E out \in FetchOutcomes : FetchOutcome(out)

\* the loop adding the rows of the table
BuildRows ==
    /\ pc = "rows"
    /\ LET bad == FirstBadRow(data) IN
       IF bad # 0
       THEN /\ Fail("An unexpected error occurred", RowError(data[bad]))
            /\ table' = [i \in 1..(bad - 1) |-> TableRow(data[i])]
       ELSE /\ table' = [i \in 1..Len(data) |-> TableRow(data[i])]
            /\ pc' = "print_table"
            /\ console' = console
    /\ UNCHANGED <<data, stats, statistics_summary, user_question, question_prompt,
                   answer, llm_log, inputs, chart, fetches, calc_calls,
                   args, retval>>

\* console.print of the count and of the awards table
PrintTable ==
    /\ pc = "print_table"
    /\ console' = console \o <<<<"Found", Len(data)>>, <<"awards table", table>>>>
    /\ pc' = "calculate"
    /\ UNCHANGED <<data, table, stats, statistics_summary, user_question,
                   question_prompt, answer, llm_log, inputs, chart, fetches, calc_calls,
                   args, retval>>

\* stats = calculate_statistics(data)
CalculateStatistics ==
    /\ pc = "calculate"
    /\ calc_calls' = calc_calls + 1
    /\ LET result == calculate_statistics(data) IN
       IF result.kind = "raise"
       THEN /\ Fail("An unexpected error occurred", result.error)
            /\ stats' = stats
       ELSE /\ stats' = result
            /\ pc' = "summary"
            /\ console' = console
    /\ UNCHANGED <<data, table, statistics_summary, user_question, question_prompt,
                   answer, llm_log, inputs, chart, fetches,
                   args, retval>>

\* print_statistics: the narrative is built from stats
ComposeSummary ==
    /\ pc = "summary"
    /\ IF stats.kind # "stats"
       THEN /\ Fail("An unexpected error occurred", "TypeError")
            /\ statistics_summary' = statistics_summary
       ELSE /\ statistics_summary' = Summary(stats)
            /\ pc' = "sentiment"
            /\ console' = console
    /\ UNCHANGED <<data, table, stats, user_question, question_prompt, answer,
                   llm_log, inputs, chart, fetches, calc_calls,
                   args, retval>>

\* print_statistics: the sentiment and the summary request, and the printing of
\* the two responses
AnalyzeSummary ==
    /\ pc = "sentiment"
    /\ \E o1 \in ServiceOutcomes, o2 \in ServiceOutcomes :
          LET p1 == SentimentPrompt(statistics_summary)
              p2 == SummaryPrompt(statistics_summary)
              r1 == analyze_with_llm(p1, o1)
              r2 == analyze_with_llm(p2, o2)
          IN /\ llm_log' = llm_log \o <<[prompt |-> p1, outcome |-> o1],
                                         [prompt |-> p2, outcome |-> o2]>>
             /\ console' = console \o r1.printed \o r2.printed
                               \o <<<<"Gemini LLM Analysis:", <<>>>>,
                                    <<"Sentiment Analysis", r1.ret>>,
                                    <<"Summary", r2.ret>>>>
    /\ pc' = "tables"
    /\ UNCHANGED <<data, table, stats, statistics_summary, user_question,
                   question_prompt, answer, inputs, chart, fetches, calc_calls,
                   args, retval>>

\* print_statistics: the three statistics tables and the two closing lines;
\* a percentage is kept as the count and the total it is taken of
PrintTables ==
    /\ pc = "tables"
    /\ console' = console \o
          <<<<"Financial Statistics",
              [total_awards |-> stats.total_awards,
               total_value |-> format_currency(PyInt(stats.total_value)),
               average_award |-> format_currency(stats.average_award),
               median_award |-> format_currency(stats.median_award),
               max_award |-> format_currency(PyInt(stats.max_award)),
               min_award |-> format_currency(PyInt(stats.min_award)),
               std_dev |-> stats.std_dev]>>,
            <<"Contract Types",
              [i \in 1..Len(stats.contract_types) |->
                  [type |-> stats.contract_types[i][1],
                   count |-> stats.contract_types[i][2],
                   percent_of |-> SeqSum([j \in 1..Len(stats.contract_types) |->
                                             stats.contract_types[j][2]])]]>>,
            <<"Top Recipients",
              [i \in 1..Len(stats.top_recipients) |->
                  <<truncate_text(stats.top_recipients[i][1], 40),
                    format_currency(PyInt(stats.top_recipients[i][2]))>>]>>,
            <<"Visualizations have been saved to 'award_analysis.png'", <<>>>>,
            <<"Ask a question about the award data:", <<>>>>>>
    /\ pc' = "AwaitingQuestion"
    /\ UNCHANGED <<data, table, stats, statistics_summary, user_question,
                   question_prompt, answer, llm_log, inputs, chart, fetches, calc_calls,
                   args, retval>>

NonExit(s) == SelectSeq(s, LAMBDA q : ~IsExit(q))

\* input() and the comparison with 'exit'; the number of questions is bounded
ReadQuestion ==
    /\ pc = "AwaitingQuestion"
    /\ \E q \in UserInputs :
          /\ IsExit(q) \/ Len(NonExit(inputs)) < MaxQuestions
          /\ user_question' = q
          /\ inputs' = Append(inputs, q)
          /\ pc' = IF IsExit(q) THEN "Closed" ELSE "ComposingPrompt"
    /\ UNCHANGED <<data, table, console, stats, statistics_summary, question_prompt,
                   answer, llm_log, chart, fetches, calc_calls,
                   args, retval>>

\* input() at the end of the input stream: EOFError leaves print_statistics
EndOfInput ==
    /\ pc = "AwaitingQuestion"
    /\ Fail("An unexpected error occurred", "EOFError")
    /\ UNCHANGED <<data, table, stats, statistics_summary, user_question,
                   question_prompt, answer, llm_log, inputs, chart, fetches, calc_calls,
                   args, retval>>

\* a loop that aggregates again for every question
ComposePromptRefresh ==
    /\ pc = "ComposingPrompt"
    /\ stats' = calculate_statistics(data)
    /\ calc_calls' = calc_calls + 1
    /\ statistics_summary' = Summary(stats')
    /\ question_prompt' = QuestionPrompt(statistics_summary', user_question)
    /\ pc' = "AwaitingAnswer"
    /\ UNCHANGED <<data, table, console, user_question, answer, llm_log, inputs,
                   chart, fetches,
                   args, retval>>

\* question_prompt = f"...'{statistics_summary}'. Question: '{user_question}'"
ComposePrompt ==
    /\ pc = "ComposingPrompt"
    /\ question_prompt' = QuestionPrompt(statistics_summary, user_question)
    /\ pc' = "AwaitingAnswer"
    /\ UNCHANGED <<data, table, console, stats, statistics_summary, user_question,
                   answer, llm_log, inputs, chart, fetches, calc_calls,
                   args, retval>>

\* a loop whose service call lets the exception through to fetch_award_data
AwaitAnswerUncaught ==
    /\ pc = "AwaitingAnswer"
    /\ \E o \in ServiceOutcomes :
          /\ llm_log' = Append(llm_log, [prompt |-> question_prompt, outcome |-> o])
          /\ IF o.ok
             THEN /\ answer' = o.text
                  /\ console' = console
                  /\ pc' = "DisplayingAnswer"
             ELSE /\ answer' = answer
                  /\ Fail("An unexpected error occurred", o.text)
    /\ UNCHANGED <<data, table, stats, statistics_summary, user_question,
                   question_prompt, inputs, chart, fetches, calc_calls,
                   args, retval>>

\* answer = analyze_with_llm(question_prompt)
AwaitAnswer ==
    /\ pc = "AwaitingAnswer"
    /\ \E o \in ServiceOutcomes :
          LET r == analyze_with_llm(question_prompt, o) IN
          /\ llm_log' = Append(llm_log, [prompt |-> question_prompt, outcome |-> o])
          /\ console' = console \o r.printed
          /\ answer' = r.ret
    /\ pc' = "DisplayingAnswer"
    /\ UNCHANGED <<data, table, stats, statistics_summary, user_question,
                   question_prompt, inputs, chart, fetches, calc_calls,
                   args, retval>>

\* console.print(f"Answer: {answer}")
DisplayAnswer ==
    /\ pc = "DisplayingAnswer"
    /\ console' = Append(console, <<"Answer", answer>>)
    /\ pc' = "AwaitingQuestion"
    /\ UNCHANGED <<data, table, stats, statistics_summary, user_question,
                   question_prompt, answer, llm_log, inputs, chart, fetches, calc_calls,
                   args, retval>>

\* create_visualizations: the three series and the file written by savefig
create_visualizations(d) ==
    LET top == TopRecipients(d, ChartTopN) IN
    [saved |-> TRUE,
     contract_types |-> ContractTypes(d),
     award_amounts |-> AwardAmounts(d),
     top_recipients |-> top,
     truncated_names |-> [i \in 1..Len(top) |-> truncate_text(top[i][1], 30)]]

\* the loop has ended: print_statistics returns and the chart is made
CreateVisualizations ==
    /\ pc = "Closed"
    /\ chart' = create_visualizations(data)
    /\ pc' = "done"
    /\ UNCHANGED <<data, table, console, stats, statistics_summary, user_question,
                   question_prompt, answer, llm_log, inputs, fetches, calc_calls,
                   args, retval>>

Next ==
    \/ Fetch
    \/ BuildRows
    \/ PrintTable
    \/ CalculateStatistics
    \/ ComposeSummary
    \/ AnalyzeSummary
    \/ PrintTables
    \/ ReadQuestion
    \/ EndOfInput
    \/ ComposePrompt
    \/ AwaitAnswer
    \/ DisplayAnswer
    \/ CreateVisualizations

Spec == Init /\ [][Next]_vars

(***************************************************************************)
(* Properties of the run of fetch_award_data, checked under Spec.          *)
(***************************************************************************)
Last(s) == s[Len(s)]

\* "exit" in any mix of upper and lower case
IsExitToken(q) ==
    /\ Len(q) = 4
    /\ q[1] \in {"e", "E"} /\ q[2] \in {"x", "X"}
    /\ q[3] \in {"i", "I"} /\ q[4] \in {"t", "T"}

LoopStates == {"AwaitingQuestion", "ComposingPrompt", "AwaitingAnswer", "DisplayingAnswer"}

\* the service calls made for questions
QuestionCalls == SelectSeq(llm_log, LAMBDA c : c.prompt.kind = "question")

\* the inputs that are no exit token
Questions == SelectSeq(inputs, LAMBDA q : ~IsExitToken(q))

Printed(what) == \E i \in 1..Len(console) : console[i][1] = what

SavedMessage == "Visualizations have been saved to 'award_analysis.png'"

C1_Step ==
    /\ (inputs' # inputs /\ IsExitToken(Last(inputs'))) => pc' = "Closed"
    /\ (inputs # <<>> /\ IsExitToken(Last(inputs))) =>
           (llm_log' = llm_log /\ pc' \notin LoopStates)

\* C1: an input that is "exit" in any case moves the loop to Closed, and no
\* call of the text-generation service happens from then on, however many
\* questions were answered before.
C1_ExitClosesLoop == [][C1_Step]_vars

C1_Witness ==
    /\ pc = "done"
    /\ inputs # <<>>
    /\ Last(inputs) = <<"E", "X", "I", "T">>
    /\ Len(Questions) = MaxQuestions
    /\ Len(QuestionCalls) = MaxQuestions

C2_Step ==
    /\ (pc = "AwaitingAnswer" /\ llm_log' # llm_log /\ ~Last(llm_log').outcome.ok) =>
           /\ pc' = "DisplayingAnswer"
           /\ console' = Append(console, <<"Error generating response",
                                           Last(llm_log').outcome.text>>)
           /\ answer' = StrGenError
    /\ (pc = "DisplayingAnswer" /\ ~Last(llm_log).outcome.ok) =>
           /\ pc' = "AwaitingQuestion"
           /\ console' = Append(console, <<"Answer", StrGenError>>)

\* C2: a failed service call of a loop cycle is shown as an error message and
\* the loop goes on to display the answer and back to AwaitingQuestion; the
\* failure neither closes the loop nor ends the run.
C2_ServiceFailureContained == [][C2_Step]_vars

C2_Witness ==
    /\ pc = "AwaitingQuestion"
    /\ QuestionCalls # <<>>
    /\ ~Last(llm_log).outcome.ok
    /\ Last(console) = <<"Answer", StrGenError>>

C3_Step ==
    /\ (inputs' # inputs /\ ~IsExitToken(Last(inputs'))) =>
           (pc = "AwaitingQuestion" /\ pc' = "ComposingPrompt")
    /\ pc = "ComposingPrompt" =>
           /\ pc' = "AwaitingAnswer"
           /\ question_prompt'.kind = "question"
           /\ question_prompt'.summary = statistics_summary
           /\ question_prompt'.question = Last(inputs)
           /\ llm_log' = llm_log
    /\ pc = "AwaitingAnswer" =>
           /\ pc' = "DisplayingAnswer"
           /\ Len(llm_log') = Len(llm_log) + 1
           /\ Last(llm_log').prompt = question_prompt
           /\ Last(llm_log').outcome.ok => answer' = Last(llm_log').outcome.text
    /\ pc = "DisplayingAnswer" =>
           /\ pc' = "AwaitingQuestion"
           /\ llm_log' = llm_log
           /\ console' = Append(console, <<"Answer", answer>>)
           /\ Last(llm_log).outcome.ok =>
                  Last(console') = <<"Answer", Last(llm_log).outcome.text>>
    /\ pc' \in {"AwaitingQuestion", "Closed"} =>
           /\ Len(QuestionCalls') = Len(Questions')
           /\ \A i \in 1..Len(Questions') :
                  QuestionCalls'[i].prompt.question = Questions'[i]

\* C3: every input that is no exit token drives one cycle AwaitingQuestion,
\* ComposingPrompt, AwaitingAnswer, DisplayingAnswer, AwaitingQuestion: the
\* prompt holds the narrative and the question as it was typed, one service
\* call is made with it, and the text displayed is the text the service
\* returned; the calls made in the loop are as many as those inputs.
C3_OneCyclePerQuestion == [][C3_Step]_vars

C3_Witness ==
    /\ pc = "AwaitingQuestion"
    /\ Len(Questions) = MaxQuestions
    /\ Len(QuestionCalls) = MaxQuestions
    /\ Last(llm_log).outcome.ok
    /\ Last(console) = <<"Answer", Last(llm_log).outcome.text>>

C4_Step ==
    pc \in LoopStates =>
       /\ statistics_summary' = statistics_summary
       /\ statistics_summary = Summary(stats)
       /\ fetches' = fetches
       /\ calc_calls' = calc_calls
       /\ stats' = stats
       /\ data' = data
       /\ \A i \in 1..Len(QuestionCalls') :
              QuestionCalls'[i].prompt.summary = statistics_summary

\* C4: through every loop cycle the narrative stays the one built before the
\* loop, no request goes to the query service, calculate_statistics is not
\* called and the records and statistics stay as they are; every question
\* prompt carries that one narrative.
C4_NarrativeFixedInLoop == [][C4_Step]_vars

C4_Witness ==
    /\ pc = "AwaitingQuestion"
    /\ Len(QuestionCalls) = MaxQuestions
    /\ fetches = 1
    /\ calc_calls = 1
    /\ statistics_summary = Summary(stats)

\* the run ended in the failure of calculate_statistics
AggregationFailed == pc = "done" /\ calc_calls = 1 /\ stats.kind = "unset"

\* C5 as claimed: when aggregation fails no part of the report is rendered:
\* no awards table, no statistics tables, no narrative, no chart file; only
\* the failure is reported.
C5_NoPartialReport ==
    AggregationFailed =>
        /\ ~Printed("awards table")
        /\ ~Printed("Financial Statistics")
        /\ ~Printed("Contract Types")
        /\ ~Printed("Top Recipients")
        /\ statistics_summary = NoSummary
        /\ ~chart.saved
        /\ Printed("An unexpected error occurred")

\* C6 as claimed: the awards table, the statistics tables and the chart file
\* are all there before the first question is awaited, and the chart file is
\* there when the message that the visualizations have been saved is printed.
C6_ChartBeforeLoop ==
    (pc = "AwaitingQuestion" \/ Printed(SavedMessage)) =>
        /\ Printed("awards table")
        /\ Printed("Financial Statistics")
        /\ chart.saved

(***************************************************************************)
(* calculate_statistics on its own: it is called once with a record        *)
(* sequence drawn from the families below.                                 *)
(***************************************************************************)
\* a raw record holding the keys whose value is not Absent
MkItem(amount, recipient, type) ==
    LET all == [k \in {KAmount, KRecipient, KType} |->
                   CASE k = KAmount -> amount
                     [] k = KRecipient -> recipient
                     [] k = KType -> type]
    IN [k \in {k \in DOMAIN all : all[k].tag # "absent"} |-> all[k]]

StatRecords ==
    {MkItem(a, r, t) :
        a \in {Absent, JNull, JNum(0), JNum(29), JNum(100)},
        r \in {Absent, JStr(<<"A">>), JStr(<<"B">>)},
        t \in {JStr(<<"X">>), JStr(<<"Y">>)}}

\* every sequence of at most MaxShort records
ShortInputs == SeqsUpTo(StatRecords, MaxShort)

\* one record followed by up to MaxPad awards of amount 0
PaddedInputs ==
    {<<r>> \o Repeat(MkItem(JNum(0), JStr(<<"A">>), JStr(<<"X">>)), k) :
        r \in StatRecords, k \in 1..MaxPad}

RankNames == <<"F", "B", "D", "A", "E", "C", "G", "H">>

\* one award of 29 or 100 for each of up to MaxRanked recipients
RECURSIVE OnePerRecipient(_)
OnePerRecipient(n) ==
    IF n = 0 THEN {<<>>}
    ELSE {Append(q, MkItem(JNum(a), JStr(<<RankNames[n]>>), JStr(<<"X">>))) :
             q \in OnePerRecipient(n - 1), a \in {29, 100}}

\* those sequences, and each of them followed by one more award for the first
\* or the last of its recipients
RankInputs ==
    LET base == UNION {OnePerRecipient(n) : n \in 1..MaxRanked} IN
    base \cup UNION {{Append(q, MkItem(JNum(a), q[i][KRecipient], JStr(<<"Y">>))) :
                         a \in {29, 100}, i \in {1, Len(q)}} : q \in base}

\* records whose amount is a number, a text, null or absent
AmountRecords ==
    {MkItem(a, JStr(<<"A">>), JStr(<<"X">>)) :
        a \in {Absent, JNull, JStr(<<>>), JStr(<<"n", "/", "a">>), JNum(0), JNum(100)}}

AmountInputs == SeqsUpTo(AmountRecords, MaxShort)

\* records whose recipient name and contract type are a text, the empty
\* text, null or absent
NameRecords ==
    {MkItem(JNum(100), r, t) :
        r \in {Absent, JNull, JStr(<<>>), JStr(StrUnknown), JStr(<<"A">>)},
        t \in {Absent, JNull, JStr(<<>>), JStr(<<"X">>)}}

NameInputs == SeqsUpTo(NameRecords, MaxShort)

\* awards of 100 and 300 and an award of 0, each with its own recipient
ExampleRecords ==
    {MkItem(JNum(100), JStr(<<"X">>), JStr(<<"A">>)),
     MkItem(JNum(300), JStr(<<"Y">>), JStr(<<"B">>)),
     MkItem(JNum(0), JStr(<<"Z">>), JStr(<<"A">>))}

ExampleInputs == SeqsUpTo(ExampleRecords, MaxShort + 1)

StatInputs ==
    ShortInputs \cup PaddedInputs \cup RankInputs \cup AmountInputs \cup NameInputs
        \cup ExampleInputs

InitStats == pc = "call" /\ data \in StatInputs /\ Blank

\* stats = calculate_statistics(data)
CallCalculateStatistics ==
    /\ pc = "call"
    /\ stats' = calculate_statistics(data)
    /\ calc_calls' = calc_calls + 1
    /\ pc' = "returned"
    /\ UNCHANGED <<data, table, console, statistics_summary, user_question,
                   question_prompt, answer, llm_log, inputs, chart, fetches,
                   args, retval>>

NextStats == CallCalculateStatistics

SpecStats == InitStats /\ [][NextStats]_vars

(***************************************************************************)
(* The table rows on their own: the run from the request to the printed    *)
(* table, for responses whose records differ in their dates.               *)
(***************************************************************************)
DateFeb30 == <<"2", "0", "2", "4", "-", "0", "2", "-", "3", "0">>
DateLeap == <<"2", "0", "2", "4", "-", "0", "2", "-", "2", "9">>
DateShort == <<"2", "0", "2", "4", "-", "2", "-", "3">>

\* a raw record holding the keys whose value is not Absent
MkRow(amount, start, end) ==
    LET all == [k \in {KAmount, KRecipient, KType, KStart, KEnd} |->
                   CASE k = KAmount -> amount
                     [] k = KRecipient -> JStr(<<"A">>)
                     [] k = KType -> JStr(<<"X">>)
                     [] k = KStart -> start
                     [] k = KEnd -> end]
    IN [k \in {k \in DOMAIN all : all[k].tag # "absent"} |-> all[k]]

RowRecords ==
    {MkRow(JNum(100), s, e) :
        s \in {Absent, JNull, JStr(<<>>), JStr(DateOk), JStr(DateBad), JStr(DateFeb30),
                JStr(DateLeap), JStr(DateShort)},
        e \in {JNull, JStr(DateOk), JStr(DateFeb30)}}
    \cup {MkRow(JStr(<<"n", "/", "a">>), JStr(DateOk), JStr(DateOk))}

RowOutcomes ==
    {[kind |-> "response", code |-> HttpOk, results |-> d] :
        d \in SeqsUpTo(RowRecords, MaxFetched) \ {<<>>}}

FetchRows == \E out \in RowOutcomes : FetchOutcome(out)

NextRows == FetchRows \/ BuildRows \/ PrintTable

SpecRows == Init /\ [][NextRows]_vars

(***************************************************************************)
(* format_currency and truncate_text on their own: one of them is called   *)
(* once.  An amount is None, an int, or the float nearest to num / den.    *)
(***************************************************************************)
NoText == JStr(<<>>)

CurrencyCall(amount, num, den) ==
    [fn |-> "format_currency", amount |-> amount, num |-> num, den |-> den,
     text |-> NoText, max_length |-> 0]

TruncateCall(text, max_length) ==
    [fn |-> "truncate_text", amount |-> PyNone, num |-> 0, den |-> 1,
     text |-> text, max_length |-> max_length]

\* float(num / den)
Quotient(num, den) == FloatDivInt(FloatOfInt(num), den)

Thresholds == {Thousand, Million, Billion}

AmountCalls ==
    {CurrencyCall(PyNone, 0, 1), CurrencyCall(PyInt(0), 0, 1),
     CurrencyCall(PyFloat(<<>>, 0), 0, 1)}
    \cup {CurrencyCall(PyInt(t + k), t + k, 1) : t \in Thresholds, k \in {-1, 0, 1}}
    \cup {CurrencyCall(FloatOfInt(t), t, 1) : t \in Thresholds}
    \cup {CurrencyCall(Quotient(2 * t + k, 2), 2 * t + k, 2) :
              t \in Thresholds, k \in {-1, 1}}
    \cup {CurrencyCall(Quotient(100 * t + k, 100), 100 * t + k, 100) :
              t \in {Thousand, Million}, k \in {-1, 1}}
    \cup {CurrencyCall(Quotient(1000 * Thousand + k, 1000), 1000 * Thousand + k, 1000) :
              k \in {-6, -5, -4}}
    \cup {CurrencyCall(Quotient(c, 100), c, 100) : c \in 1..MaxCents}
    \cup {CurrencyCall(Quotient(c, 8), c, 8) : c \in 1..MaxCents}
    \cup {CurrencyCall(PyInt(c * 150), c * 150, 1) : c \in 1..MaxCents}

\* every text of at most n characters "a" and "b"
Texts(n) == SeqsUpTo({"a", "b"}, n)

TextCalls ==
    {TruncateCall(t, n) :
        t \in {JNull, JStr(StrNA)} \cup {JStr(x) : x \in Texts(MaxText)},
        n \in 0..MaxText}
    \cup {TruncateCall(JStr(<<"a", "b", "c", "d", "e", "f", "g", "h", "i", "j">>), 5),
          TruncateCall(JStr(<<"a", "b", "c">>), 5),
          TruncateCall(JStr(<<>>), 5)}

InitHelpers ==
    /\ pc = "call"
    /\ data = <<>>
    /\ BlankRun
    /\ args \in AmountCalls \cup TextCalls
    /\ retval = Unset

\* retval = format_currency(amount)
CallFormatCurrency ==
    /\ pc = "call"
    /\ args.fn = "format_currency"
    /\ retval' = format_currency(args.amount)
    /\ pc' = "returned"
    /\ UNCHANGED <<data, table, console, stats, statistics_summary, user_question,
                   question_prompt, answer, llm_log, inputs, chart, fetches,
                   calc_calls, args>>

\* retval = truncate_text(text, max_length)
CallTruncateText ==
    /\ pc = "call"
    /\ args.fn = "truncate_text"
    /\ retval' = truncate_text(args.text, args.max_length)
    /\ pc' = "returned"
    /\ UNCHANGED <<data, table, console, stats, statistics_summary, user_question,
                   question_prompt, answer, llm_log, inputs, chart, fetches,
                   calc_calls, args>>

NextHelpers == CallFormatCurrency \/ CallTruncateText

SpecHelpers == InitHelpers /\ [][NextHelpers]_vars

(***************************************************************************)
(* src/script.py: main, get_filters, fetch_awards and print_awards_table.  *)
(* The run keeps its filters in args and what fetch_awards returned in     *)
(* retval; an exception nothing catches ends the run in "crashed", with    *)
(* the exception in retval.                                                *)
(***************************************************************************)
Raised(error) == [kind |-> "raised", error |-> error]

\* text.split(",")
RECURSIVE SplitComma(_)
SplitComma(t) ==
    IF IndexOf(t, ",") = 0 THEN <<t>>
    ELSE <<SubSeq(t, 1, IndexOf(t, ",") - 1)>>
            \o SplitComma(SubSeq(t, IndexOf(t, ",") + 1, Len(t)))

\* text.strip(), for texts whose only blanks are spaces
RECURSIVE Strip(_)
Strip(t) ==
    IF t = <<>> THEN t
    ELSE IF t[1] = " " THEN Strip(Tail(t))
    ELSE IF t[Len(t)] = " " THEN Strip(SubSeq(t, 1, Len(t) - 1))
    ELSE t

StrDefaultAgency == <<"D", "e", "p", "a", "r", "t", "m", "e", "n", "t", " ", "o", "f", " ",
                      "D", "e", "f", "e", "n", "s", "e">>
StrDefaultCodes == <<"A", ",", "B", ",", "C", ",", "D">>

\* the filters get_filters builds from the four lines read
Filters(agency, codes, year, recipient) ==
    LET typed == IF codes = <<>> THEN StrDefaultCodes ELSE codes
        parts == SplitComma(typed)
    IN [agency |-> IF agency = <<>> THEN StrDefaultAgency ELSE agency,
        award_type_codes |-> [i \in 1..Len(parts) |-> Strip(parts[i])],
        time_period |-> IF year = <<>> THEN <<>>
                        ELSE <<[start_date |-> year \o <<"-", "0", "1", "-", "0", "1">>,
                                end_date |-> year \o <<"-", "1", "2", "-", "3", "1">>]>>,
        recipient_search_text |-> IF recipient = <<>> THEN <<>> ELSE <<recipient>>]

\* what the user can type at the four prompts
AgencyInputs == {<<>>, <<"N", "A", "S", "A">>}
CodeInputs == {<<>>, <<"A", ",", " ", "B">>}
YearInputs == {<<>>, <<"2", "0", "2", "3">>}
RecipientInputs == {<<>>, <<"V", "I", "T", "G">>}

\* the body of a response of status 200: no JSON, or a JSON object whose
\* "results" is absent, null or a list
ScriptBodies ==
    {[json |-> FALSE, results |-> Absent]}
    \cup {[json |-> TRUE, results |-> r] : r \in {Absent, JNull}}
    \cup {[json |-> TRUE, results |-> [tag |-> "list", n |-> 0, s |-> d]] :
             d \in SeqsUpTo(AmountRecords, MaxFetched)}

\* what requests.post can end in
ScriptOutcomes ==
    {[kind |-> "RequestException", code |-> 0, body |-> [json |-> FALSE, results |-> Absent]]}
    \cup {[kind |-> "response", code |-> c, body |-> [json |-> FALSE, results |-> Absent]] :
             c \in {404, 500}}
    \cup {[kind |-> "response", code |-> HttpOk, body |-> b] : b \in ScriptBodies}

\* a fetch_awards that raises for a status other than 200
fetch_awards_raising(out) ==
    IF out.kind = "RequestException" THEN Raised("RequestException")
    ELSE IF out.code = HttpOk
    THEN IF ~out.body.json THEN Raised("JSONDecodeError")
         ELSE CASE out.body.results.tag = "absent" -> [kind |-> "list", v |-> <<>>]
                [] out.body.results.tag = "null" -> [kind |-> "none"]
                [] OTHER -> [kind |-> "list", v |-> out.body.results.s]
    ELSE Raised("HTTPError")

\* fetch_awards: the value returned, or the exception raised
fetch_awards(out) ==
    IF out.kind = "RequestException" THEN Raised("RequestException")
    ELSE IF out.code = HttpOk
    THEN IF ~out.body.json THEN Raised("JSONDecodeError")
         ELSE CASE out.body.results.tag = "absent" -> [kind |-> "list", v |-> <<>>]
                [] out.body.results.tag = "null" -> [kind |-> "none"]
                [] OTHER -> [kind |-> "list", v |-> out.body.results.s]
    ELSE [kind |-> "dict", error |-> <<"API error", out.code>>,
          details |-> <<"response.text", out.code>>]

\* award.get("Award Amount", 0) or 0
MoneyOf(award) ==
    LET v == Get(award, KAmount, JNum(0)) IN IF Truthy(v) THEN v ELSE JNum(0)

\* f"${...:,.2f}": the format code f does not take a text
MoneyCell(award) == <<"$">> \o Fixed(PyInt(MoneyOf(award).n), 2, TRUE)

\* one row of print_awards_table; the money columns the records do not hold
\* are built as the amount is
AwardRow(award) ==
    [award_id |-> Get(award, "Award ID", JStr(StrNA)),
     recipient |-> Get(award, KRecipient, JStr(StrNA)),
     amount |-> MoneyCell(award),
     type |-> Get(award, KType, JStr(StrNA))]

\* python compiles the file before it runs it: a quote of the kind that
\* delimits an f-string inside its braces (lines 119 to 126) is a SyntaxError
\* before Python 3.12
LoadScript ==
    /\ pc = "script"
    /\ \/ pc' = "get_filters" /\ retval' = retval
       \/ pc' = "crashed" /\ retval' = Raised("SyntaxError")
    /\ UNCHANGED <<data, table, console, stats, statistics_summary, user_question,
                   question_prompt, answer, llm_log, inputs, chart, fetches, calc_calls,
                   args>>

\* get_filters with its four lines read, and print("\nFetching awards...")
GetFilters ==
    /\ pc = "get_filters"
    /\ \E agency \in AgencyInputs, codes \in CodeInputs, year \in YearInputs,
          recipient \in RecipientInputs :
          /\ args' = Filters(agency, codes, year, recipient)
          /\ inputs' = <<agency, codes, year, recipient>>
    /\ console' = console \o <<<<"Welcome to the Award Search Tool!", <<>>>>,
                              <<"Fetching awards...", <<>>>>>>
    /\ pc' = "fetch_awards"
    /\ UNCHANGED <<data, table, stats, statistics_summary, user_question,
                   question_prompt, answer, llm_log, chart, fetches, calc_calls,
                   retval>>

\* input() at the end of the input stream: nothing catches the EOFError
GetFiltersEndOfInput ==
    /\ pc = "get_filters"
    /\ console' = Append(console, <<"Welcome to the Award Search Tool!", <<>>>>)
    /\ pc' = "crashed"
    /\ retval' = Raised("EOFError")
    /\ UNCHANGED <<data, table, stats, statistics_summary, user_question,
                   question_prompt, answer, llm_log, inputs, chart, fetches, calc_calls,
                   args>>

\* awards = fetch_awards(filters)
FetchAwards ==
    /\ pc = "fetch_awards"
    /\ fetches' = fetches + 1
    /\ \E out \in ScriptOutcomes :
          /\ retval' = fetch_awards(out)
          /\ pc' = IF retval'.kind = "raised" THEN "crashed" ELSE "show"
    /\ UNCHANGED <<data, table, console, stats, statistics_summary, user_question,
                   question_prompt, answer, llm_log, inputs, chart, calc_calls,
                   args>>

\* the display of main: the table of a list that is not empty, the message
\* otherwise, with the details of an error dict
ShowAwards ==
    /\ pc = "show"
    /\ IF retval.kind = "list" /\ retval.v # <<>>
       THEN IF \E i \in 1..Len(retval.v) : MoneyOf(retval.v[i]).tag = "str"
            THEN /\ pc' = "crashed"
                 /\ retval' = Raised("ValueError")
                 /\ UNCHANGED <<data, table, console>>
            ELSE /\ data' = retval.v
                 /\ table' = [i \in 1..Len(retval.v) |-> AwardRow(retval.v[i])]
                 /\ console' = console \o <<<<"--- Awards Table ---", <<>>>>,
                                           <<"tabulate", table'>>,
                                           <<"--- End of Awards Table ---", <<>>>>>>
                 /\ pc' = "returned"
                 /\ retval' = retval
       ELSE /\ console' = console
                   \o <<<<"No awards found or an error occurred.", <<>>>>>>
                   \o (IF retval.kind = "dict"
                       THEN <<<<"Error Details", retval.details>>>> ELSE <<>>)
            /\ pc' = "returned"
            /\ UNCHANGED <<data, table, retval>>
    /\ UNCHANGED <<stats, statistics_summary, user_question, question_prompt, answer,
                   llm_log, inputs, chart, fetches, calc_calls, args>>

\* either program is started
InitEntry == pc \in {"start", "script"} /\ data = <<>> /\ Blank

NextEntry ==
    \/ Next
    \/ LoadScript
    \/ GetFilters
    \/ GetFiltersEndOfInput
    \/ FetchAwards
    \/ ShowAwards

SpecEntry == InitEntry /\ [][NextEntry]_vars

(***************************************************************************)
(* The narrative and the chart on their own: calculate_statistics, the     *)
(* summary print_statistics builds from its result, and the chart made     *)
(* from the same records.                                                  *)
(***************************************************************************)
MaxCharted == 12

\* one award for each of n recipients, with totals that rise, fall, or are
\* all the same
Charted(n, shape) ==
    [i \in 1..n |->
        MkItem(JNum(CASE shape = "rising" -> 10 * i
                      [] shape = "falling" -> 10 * (n + 1 - i)
                      [] shape = "level" -> 50),
               JStr(<<UpperChars[i]>>),
               JStr(<<IF i % 3 = 0 THEN "X" ELSE "Y">>))]

ChartInputs ==
    {Charted(n, shape) : n \in (MaxCharted - 2)..MaxCharted,
                         shape \in {"rising", "falling", "level"}}

InitNarrative == pc = "call" /\ data \in StatInputs \cup ChartInputs /\ Blank

\* statistics_summary = f"The analysis found ... "
BuildNarrative ==
    /\ pc = "returned"
    /\ stats.kind = "stats"
    /\ statistics_summary' = Summary(stats)
    /\ pc' = "narrated"
    /\ UNCHANGED <<data, table, console, stats, user_question, question_prompt, answer,
                   llm_log, inputs, chart, fetches, calc_calls, args, retval>>

\* create_visualizations(data, agency_name)
DrawChart ==
    /\ pc = "narrated"
    /\ chart' = create_visualizations(data)
    /\ pc' = "drawn"
    /\ UNCHANGED <<data, table, console, stats, statistics_summary, user_question,
                   question_prompt, answer, llm_log, inputs, fetches, calc_calls,
                   args, retval>>

NextNarrative == CallCalculateStatistics \/ BuildNarrative \/ DrawChart

SpecNarrative == InitNarrative /\ [][NextNarrative]_vars

(***************************************************************************)
(* Properties of calculate_statistics, checked under SpecStats.            *)
(***************************************************************************)
\* Python arithmetic used by the properties
RECURSIVE Reverse(_)
Reverse(s) == IF s = <<>> THEN <<>> ELSE Append(Reverse(Tail(s)), Head(s))

\* bits * n on a least-significant-first bit sequence, n a small natural
RECURSIVE MulLsb(_, _, _)
MulLsb(b, n, carry) ==
    IF b = <<>> THEN Reverse(BitsOf(carry))
    ELSE LET t == Head(b) * n + carry IN <<t % 2>> \o MulLsb(Tail(b), n, t \div 2)

\* x * n in Python for a float x >= 0 and an int n >= 1: the double nearest to
\* the product
FloatMulInt(x, n) ==
    IF x.sig = <<>> THEN x
    ELSE LET p == Reverse(MulLsb(Reverse(x.sig), n, 0))
             extra == Len(p) - MantBits
             low == SubSeq(p, MantBits + 1, Len(p))
             half == IF extra = 0 THEN 1 ELSE Pow2(extra - 1)
         IN RoundSig(SubSeq(p, 1, MantBits), x.exp + extra,
                     extra > 0 /\ BitsVal(low) > half, extra > 0 /\ BitsVal(low) = half)

\* x == y in Python for two numbers of the model, ints below 2^53
NumEq(x, y) ==
    LET fx == IF x.tag = "int" THEN FloatOfInt(x.v) ELSE x
        fy == IF y.tag = "int" THEN FloatOfInt(y.v) ELSE y
    IN fx = fy

\* x * n in Python for a number x >= 0 and an int n >= 1
NumMulInt(x, n) == IF x.tag = "int" THEN PyInt(x.v * n) ELSE FloatMulInt(x, n)

\* the Award Amount of a record as the specification reads it: 0 when it is
\* missing, null or no number
ClaimAmount(item) ==
    IF KAmount \in DOMAIN item /\ item[KAmount].tag = "num" THEN item[KAmount].n ELSE 0

\* the recipient a record is grouped under
ClaimRecipient(item) ==
    IF KRecipient \in DOMAIN item THEN item[KRecipient] ELSE JStr(StrUnknown)

ClaimAmounts == {ClaimAmount(data[i]) : i \in 1..Len(data)}

ClaimTotal == SeqSum([i \in 1..Len(data) |-> ClaimAmount(data[i])])

\* the sum of the amounts of the records of one recipient
ClaimTotalOf(name) ==
    SeqSum([i \in 1..Len(data) |->
               IF ClaimRecipient(data[i]) = name THEN ClaimAmount(data[i]) ELSE 0])

ClaimRecipients == {ClaimRecipient(data[i]) : i \in 1..Len(data)}

\* the index of the first record of a recipient
FirstSeen(name) ==
    CHOOSE i \in 1..Len(data) :
        /\ ClaimRecipient(data[i]) = name
        /\ \A j \in 1..(i - 1) : ClaimRecipient(data[j]) # name

Returned == pc = "returned"

\* every Award Amount that is there is a number or null
AmountsAreNumbers ==
    \A i \in 1..Len(data) :
        KAmount \in DOMAIN data[i] => data[i][KAmount].tag \in {"num", "null"}

\* C7: for records whose amounts are numbers, null or absent: with at least one
\* positive Award Amount min_award is the smallest of the positive amounts,
\* zeros left out; when every amount of a non-empty record set is 0
\* calculate_statistics fails with an error and returns no statistics with
\* min_award 0.
C7_MinAwardOverPositive ==
    (Returned /\ data # <<>> /\ AmountsAreNumbers) =>
        IF ClaimAmounts \ {0} # {}
        THEN /\ stats.kind = "stats"
             /\ stats.min_award \in ClaimAmounts \ {0}
             /\ \A x \in ClaimAmounts \ {0} : stats.min_award <= x
        ELSE stats.kind = "raise"

C7_Witness ==
    /\ Returned
    /\ Len(data) >= 2
    /\ ClaimAmounts = {0}
    /\ stats.kind = "raise"

\* C8 as claimed: called with no records calculate_statistics fails with an
\* error and returns nothing.
C8_EmptyInputFails == (Returned /\ data = <<>>) => stats.kind = "raise"

\* C8 amended: called with no records calculate_statistics returns None: it
\* raises no error and returns no statistics.
C8_EmptyInputReturnsNone == (Returned /\ data = <<>>) => stats.kind = "none"

C8_Witness == Returned /\ data = <<>> /\ calc_calls = 1

C10_AverageTimesCountIsTotal ==
    (Returned /\ stats.kind = "stats") =>
        /\ stats.total_awards = Len(data)
        /\ stats.total_value = ClaimTotal
        /\ NumEq(NumMulInt(stats.average_award, stats.total_awards),
                 PyInt(stats.total_value))

\* C10 amended: total_awards is the number of records, total_value the sum of
\* the amounts, and average_award == total_value / total_awards, the double
\* nearest to the quotient; multiplied by total_awards it gives total_value
\* whenever total_awards divides total_value.
C10_AverageIsRoundedQuotient ==
    (Returned /\ stats.kind = "stats") =>
        /\ stats.total_awards = Len(data)
        /\ stats.total_value = ClaimTotal
        /\ NumEq(stats.average_award, TrueDiv(ClaimTotal, Len(data)))
        /\ (ClaimTotal % Len(data) = 0 =>
               NumEq(NumMulInt(stats.average_award, Len(data)), PyInt(ClaimTotal)))

C10_Witness ==
    /\ Returned
    /\ stats.kind = "stats"
    /\ \E i \in 1..Len(data) :
          KAmount \notin DOMAIN data[i] \/ data[i][KAmount].tag = "null"
    /\ stats.average_award.tag = "float"
    /\ stats.total_value % stats.total_awards # 0

\* the records with every Award Amount that is missing, null or no number
\* replaced by 0
Normalized(d) ==
    [i \in 1..Len(d) |->
        [k \in DOMAIN d[i] \cup {KAmount} |->
            IF k = KAmount THEN JNum(ClaimAmount(d[i])) ELSE d[i][k]]]

\* C11 as claimed: an Award Amount that is missing, null or no number counts as
\* 0: calculate_statistics gives for the raw records what it gives for the
\* records with those amounts replaced by 0, and so raises no error that the
\* replaced records do not raise.
C11_NonNumericAmountIsZero ==
    (Returned /\ data # <<>>) => stats = calculate_statistics(Normalized(data))

\* the name a record is filed under as the specification reads it: "Unknown"
\* when the name is absent, null or empty
ClaimName(item, key) ==
    IF key \in DOMAIN item /\ item[key].tag = "str" /\ item[key].s # <<>>
    THEN item[key].s
    ELSE StrUnknown

\* the number of records filed under a contract type
ClaimCountOfType(name) ==
    Cardinality({i \in 1..Len(data) : ClaimName(data[i], KType) = name})

\* the sum of the amounts of the records filed under a recipient
ClaimTotalOfName(name) ==
    SeqSum([i \in 1..Len(data) |->
               IF ClaimName(data[i], KRecipient) = name THEN ClaimAmount(data[i]) ELSE 0])

\* C12 as claimed: every group of top_recipients and of contract_types carries
\* a name that is a text and not empty; the records whose recipient name is
\* absent, null or empty are summed in the one group "Unknown", and those whose
\* contract type is absent, null or empty are counted in the one group
\* "Unknown".
C12_MissingNamesAreUnknown ==
    (Returned /\ stats.kind = "stats") =>
        /\ \A i \in 1..Len(stats.contract_types) :
               LET e == stats.contract_types[i] IN
               /\ e[1].tag = "str" /\ e[1].s # <<>>
               /\ e[2] = ClaimCountOfType(e[1].s)
        /\ \A i \in 1..Len(stats.top_recipients) :
               LET e == stats.top_recipients[i] IN
               /\ e[1].tag = "str" /\ e[1].s # <<>>
               /\ e[2] = ClaimTotalOfName(e[1].s)

\* the amounts as the statistics read them, one for each record
ClaimSeries == [i \in 1..Len(data) |-> ClaimAmount(data[i])]

\* the k-th smallest amount: fewer than k amounts are below it and at least
\* k are not above it
ClaimKth(k) ==
    CHOOSE v \in ClaimAmounts :
        /\ Cardinality({i \in 1..Len(data) : ClaimSeries[i] < v}) < k
        /\ Cardinality({i \in 1..Len(data) : ClaimSeries[i] <= v}) >= k

\* the records of the end-to-end example
ExampleData ==
    <<MkItem(JNum(100), JStr(<<"X">>), JStr(<<"A">>)),
      MkItem(JNum(300), JStr(<<"Y">>), JStr(<<"B">>))>>

\* C17: whenever calculate_statistics returns statistics, median_award is the
\* middle amount of all the amounts, zeros included, for an odd number of
\* records and half the sum of the two central amounts for an even number,
\* and max_award is the largest amount; for the records (100, A, X) and
\* (300, B, Y) the statistics are 2 awards, value 400, average 200, median
\* 200, maximum 300, minimum 100, one award of each type and the recipients
\* Y with 300 and X with 100, in that order.
C17_MedianAndMax ==
    (Returned /\ stats.kind = "stats") =>
        LET n == Len(data) IN
        /\ IF n % 2 = 1
           THEN stats.median_award = PyInt(ClaimKth((n + 1) \div 2))
           ELSE /\ stats.median_award.tag = "float"
                /\ NumEq(NumMulInt(stats.median_award, 2),
                         PyInt(ClaimKth(n \div 2) + ClaimKth(n \div 2 + 1)))
        /\ stats.max_award \in ClaimAmounts
        /\ \A x \in ClaimAmounts : x <= stats.max_award
        /\ data = ExampleData =>
              /\ stats.total_awards = 2
              /\ stats.total_value = 400
              /\ NumEq(stats.average_award, PyInt(200))
              /\ NumEq(stats.median_award, PyInt(200))
              /\ stats.max_award = 300
              /\ stats.min_award = 100
              /\ stats.contract_types = <<<<JStr(<<"A">>), 1>>, <<JStr(<<"B">>), 1>>>>
              /\ stats.top_recipients = <<<<JStr(<<"Y">>), 300>>, <<JStr(<<"X">>), 100>>>>

\* an even number of records with a zero among them
C17_Witness ==
    /\ Returned
    /\ stats.kind = "stats"
    /\ Len(data) = 2
    /\ ClaimSeries = <<0, 300>>
    /\ NumEq(stats.median_award, PyInt(150))
    /\ stats.max_award = 300

\* the statistics of one record have a std_dev of 0, whatever its amount
C18_OneRecordHasZeroDeviation ==
    (Returned /\ Len(data) = 1) => (stats.kind = "stats" /\ stats.std_dev = PyInt(0))

\* the sum of the squares of the amounts
ClaimSquares == SeqSum([i \in 1..Len(data) |-> ClaimSeries[i] * ClaimSeries[i]])

\* C18: whenever calculate_statistics returns statistics, std_dev is 0 for one
\* record and is the sample standard deviation, the root of
\* (n * sum of squares - square of the sum) / (n * (n - 1)), for two records
\* and more; one record with no positive amount gets no statistics at all.
C18_DeviationNeedsTwoRecords ==
    Returned =>
        /\ stats.kind = "stats" =>
              LET n == Len(data) IN
              IF n = 1 THEN stats.std_dev = PyInt(0)
              ELSE /\ stats.std_dev.tag = "sqrt"
                   /\ stats.std_dev.v * n * (n - 1)
                          = stats.std_dev.exp * (n * ClaimSquares - ClaimTotal * ClaimTotal)
        /\ (Len(data) = 1 /\ ClaimAmounts = {0}) => stats.kind = "raise"

C18_Witness ==
    /\ Returned
    /\ Len(data) = 1
    /\ ClaimAmounts = {100}
    /\ stats.kind = "stats"
    /\ stats.std_dev = PyInt(0)

(***************************************************************************)
(* Properties of format_currency and truncate_text, checked under          *)
(* SpecHelpers.                                                            *)
(***************************************************************************)
IsDigit(c) == \E i \in 1..Len(DigitChars) : DigitChars[i] = c

\* "$", digits, ".", one digit and the suffix
IsSuffixForm(t, suffix) ==
    /\ Len(t) >= 5
    /\ t[1] = "$" /\ t[Len(t)] = suffix /\ t[Len(t) - 2] = "."
    /\ IsDigit(t[Len(t) - 1])
    /\ \A i \in 2..(Len(t) - 3) : IsDigit(t[i])

\* "$", digits with "," before every group of three, "." and two digits
IsPlainForm(t) ==
    /\ Len(t) >= 5
    /\ t[1] = "$" /\ t[Len(t) - 2] = "."
    /\ IsDigit(t[Len(t) - 1]) /\ IsDigit(t[Len(t)])
    /\ IsDigit(t[2])
    /\ \A i \in 2..(Len(t) - 3) :
           IF (Len(t) - 2 - i) % 4 = 0 THEN t[i] = "," ELSE IsDigit(t[i])

FormatReturned == pc = "returned" /\ args.fn = "format_currency"

\* C13: None and 0 give "$0"; every other amount >= 0 gives the one form its
\* inclusive lower threshold selects: B from 1,000,000,000, else M from
\* 1,000,000, else K from 1,000, else two decimals with thousands separators;
\* 999.99 gives "$999.99", 1000 gives "$1.0K" and 1,000,000 gives "$1.0M".
C13_FormatCurrencyThresholds ==
    FormatReturned =>
        LET t == retval.text
            whole == args.num \div args.den
        IN /\ (args.amount.tag = "none" \/ args.num = 0) <=> t = <<"$", "0">>
           /\ (args.amount.tag # "none" /\ args.num # 0) =>
                  /\ whole >= Billion <=> IsSuffixForm(t, "B")
                  /\ (whole < Billion /\ whole >= Million) <=> IsSuffixForm(t, "M")
                  /\ (whole < Million /\ whole >= Thousand) <=> IsSuffixForm(t, "K")
                  /\ whole < Thousand <=> IsPlainForm(t)
           /\ (args.num = 99999 /\ args.den = 100) =>
                  t = <<"$", "9", "9", "9", ".", "9", "9">>
           /\ (args.num = Thousand /\ args.den = 1) => t = <<"$", "1", ".", "0", "K">>
           /\ (args.num = Million /\ args.den = 1) => t = <<"$", "1", ".", "0", "M">>

\* the thresholds themselves, just below them and just above them have been
\* formatted
C13_Witness ==
    /\ FormatReturned
    /\ args.num = Thousand /\ args.den = 1
    /\ retval.text = <<"$", "1", ".", "0", "K">>

TruncateReturned == pc = "returned" /\ args.fn = "truncate_text"

\* C14: truncate_text gives "N/A" for a text that is None, empty or "N/A";
\* else the text itself when it has at most max_length characters, and else
\* its first max_length characters followed by "..."; the result is never
\* longer than max_length + 3.
C14_TruncateText ==
    TruncateReturned =>
        LET t == args.text
            n == args.max_length
        IN /\ IF t.tag = "null" \/ t.s = <<>> \/ t.s = StrNA THEN retval = StrNA
              ELSE IF Len(t.s) <= n THEN retval = t.s
              ELSE retval = SubSeq(t.s, 1, n) \o <<".", ".", ".">>
           /\ Len(retval) <= n + 3
           /\ (t.s = <<"a", "b", "c", "d", "e", "f", "g", "h", "i", "j">> /\ n = 5) =>
                  retval = <<"a", "b", "c", "d", "e", ".", ".", ".">>

C14_Witness ==
    /\ TruncateReturned
    /\ args.max_length > 0
    /\ Len(args.text.s) = args.max_length
    /\ retval = args.text.s

(***************************************************************************)
(* Properties of the table rows, checked under SpecRows.                   *)
(***************************************************************************)
\* the date is absent, null or empty
DateMissing(item, key) ==
    key \notin DOMAIN item \/ item[key].tag = "null" \/ item[key].s = <<>>

\* the date is there and is no date of the calendar written year-month-day
DateMalformed(item, key) ==
    ~DateMissing(item, key) /\ item[key].s \in {DateBad, DateFeb30}

\* the cell a date that is there and well formed is shown as
ShownDate(t) ==
    CASE t = DateOk -> <<"0", "1", "/", "3", "1", "/", "2", "0", "2", "4">>
      [] t = DateLeap -> <<"0", "2", "/", "2", "9", "/", "2", "0", "2", "4">>
      [] t = DateShort -> <<"0", "2", "/", "0", "3", "/", "2", "0", "2", "4">>

\* the cell of a row for a date that is not malformed
ClaimDateCell(item, key) ==
    IF DateMissing(item, key) THEN StrNA ELSE ShownDate(item[key].s)

\* the records whose dates are malformed, and those whose amount is a text
MalformedRows ==
    {i \in 1..Len(data) : DateMalformed(data[i], KStart) \/ DateMalformed(data[i], KEnd)}
TextAmountRows ==
    {i \in 1..Len(data) : KAmount \in DOMAIN data[i] /\ data[i][KAmount].tag = "str"}

RowsBuilt == pc \in {"print_table", "calculate", "done"}

NoAwardsMessage == <<"No awards found or an error occurred.", <<>>>>

\* what the step added to the console
NewLines == SubSeq(console', Len(console) + 1, Len(console'))

\* the service calls the step made
NewCalls == SubSeq(llm_log', Len(llm_log) + 1, Len(llm_log'))

\* fetch_award_data: a status other than 200 and an empty result list each end
\* in their message and the return
C16_ReportStep ==
    \A out \in FetchOutcomes :
        (out.kind = "response" /\ FetchOutcome(out)) =>
            /\ out.code # HttpOk =>
                   /\ pc' = "done"
                   /\ NewLines = <<<<"Error: Received status code", out.code>>>>
            /\ (out.code = HttpOk /\ out.results = <<>>) =>
                   /\ pc' = "done"
                   /\ NewLines = <<<<"No results found", <<>>>>>>

\* fetch_award_data: every failed call of the text-generation service is
\* printed and the run goes on
C16_ServiceStep ==
    \A i \in 1..Len(NewCalls) :
        ~NewCalls[i].outcome.ok =>
            /\ pc' \in {"tables", "DisplayingAnswer"}
            /\ \E j \in 1..Len(NewLines) :
                  NewLines[j] = <<"Error generating response", NewCalls[i].outcome.text>>

\* main: fetch_awards returns for a status other than 200 and for an empty
\* result list, and main prints its message and returns
C16_MainStep ==
    /\ \A out \in ScriptOutcomes :
          (/\ pc = "fetch_awards"
           /\ retval' = fetch_awards(out)
           /\ out.kind = "response"
           /\ \/ out.code # HttpOk
              \/ out.body.json /\ out.body.results.tag \in {"absent", "null"}
              \/ out.body.json /\ out.body.results.tag = "list" /\ out.body.results.s = <<>>)
          => pc' = "show" /\ (out.code # HttpOk <=> retval'.kind = "dict")
    /\ (pc = "show" /\ retval.kind = "dict") =>
          /\ pc' = "returned"
          /\ NewLines = <<NoAwardsMessage, <<"Error Details", retval.details>>>>
    /\ (pc = "show" /\ (retval.kind = "none" \/ (retval.kind = "list" /\ retval.v = <<>>))) =>
          /\ pc' = "returned"
          /\ NewLines = <<NoAwardsMessage>>

C16_Step == C16_ReportStep /\ C16_ServiceStep /\ C16_MainStep

\* C16: in main of script.py and in fetch_award_data a status other than 200
\* from the query service and an empty result list each end in a printed
\* message and a normal return, and a failed call of the text-generation
\* service is printed and the run goes on: none of them ends the run with an
\* exception nothing catches.
C16_FailuresAreReported == [][C16_Step]_vars

C16_Witness ==
    /\ pc = "returned"
    /\ retval.kind = "dict"
    /\ Len(console) >= 2
    /\ Last(console)[1] = "Error Details"
    /\ console[Len(console) - 1] = NoAwardsMessage

(***************************************************************************)
(* Properties of the narrative and the chart, checked under SpecNarrative. *)
(***************************************************************************)
Narrated == pc \in {"narrated", "drawn"}

\* C19: the contract type the narrative names as the most common is a type
\* of contract_types with a count none of the others exceeds; the recipient
\* it names as the top one is the first entry of top_recipients, with the
\* total of that entry; the counts of contract_types add up to total_awards;
\* and the top recipients of the statistics are the first five of the ten the
\* chart ranks from the same records.
C19_NarrativeAgrees ==
    /\ Narrated =>
          LET types == stats.contract_types IN
          /\ \E i \in 1..Len(types) :
                /\ types[i][1] = statistics_summary.common_type
                /\ \A j \in 1..Len(types) : types[j][2] <= types[i][2]
          /\ statistics_summary.top_recipient = stats.top_recipients[1][1]
          /\ statistics_summary.top_total
                 = format_currency(PyInt(stats.top_recipients[1][2]))
          /\ SeqSum([i \in 1..Len(types) |-> types[i][2]]) = stats.total_awards
    /\ pc = "drawn" =>
          /\ Len(chart.top_recipients) <= 10
          /\ Len(stats.top_recipients)
                 = (IF Len(chart.top_recipients) < 5 THEN Len(chart.top_recipients) ELSE 5)
          /\ \A i \in 1..Len(stats.top_recipients) :
                stats.top_recipients[i] = chart.top_recipients[i]

\* more recipients than the chart ranks, and two types of different counts
C19_Witness ==
    /\ pc = "drawn"
    /\ Len(data) > 10
    /\ Len(chart.top_recipients) = 10
    /\ Len(stats.top_recipients) = 5
    /\ Len(stats.contract_types) = 2
    /\ stats.contract_types[1][2] # stats.contract_types[2][2]
    /\ stats.top_recipients[1][2] > stats.top_recipients[5][2]
====
